---- MODULE Spec2Model ----
(***************************************************************************)
(* untracker: stem extraction from a tracker module (src/untracker.cpp).   *)
(* The model follows main(): parseArguments, the StemExtractor             *)
(* constructor and StemExtractor::extractStems, one action per step of     *)
(* the sequential program.  The playback engine (libopenmpt), the encoder  *)
(* (libsndfile) and the file system are the environment: the engine state  *)
(* the program drives (mute map, position, interpolation filter) and the   *)
(* files it creates are variables; what the environment answers (audio,    *)
(* rejected mute commands, failing open/write/mkdir, exceptions) is chosen *)
(* in Init or with \E in the action that asks.                             *)
(***************************************************************************)
EXTENDS Integers, Sequences, FiniteSets, TLC

\* ------------------------------------------------------------ bounds
\* Largest number of voices the engine reports.
MaxVoices == 3
\* Largest number of blocks of BUFFER_SIZE frames a module plays.
MaxBlocks == 2
\* Largest number of option groups after the -i / -o arguments.
MaxExtra == 2
\* Voices of the large module: enough for file numbers past 999.
ManyVoices == 1001
\* Longest voice name drawn from the alphabet of special characters.
MaxNameLen == 2

\* ------------------------------------------------------------ strings
\* std::string values are sequences of one-character strings wherever the
\* code looks inside them (names, paths); command-line tokens the code only
\* compares as a whole are TLA+ strings.
Digit == <<"0", "1", "2", "3", "4", "5", "6", "7", "8", "9">>

RECURSIVE to_string(_)
to_string(n) ==
  IF n < 10 THEN <<Digit[n + 1]>>
  ELSE to_string(n \div 10) \o <<Digit[(n % 10) + 1]>>

\* The characters of the whole-token strings the code looks inside: those
\* that end up inside a path, and those handed to std::stoi.
Chars(s) ==
  CASE s = "wav" -> <<"w", "a", "v">>
    [] s = "flac" -> <<"f", "l", "a", "c">>
    [] s = "vorbis" -> <<"v", "o", "r", "b", "i", "s">>
    [] s = "opus" -> <<"o", "p", "u", "s">>
    [] s = "mp3" -> <<"m", "p", "3">>
    [] s = "out" -> <<"o", "u", "t">>
    [] s = "song.mod" -> <<"s", "o", "n", "g", ".", "m", "o", "d">>
    [] s = "in/a b.xm" -> <<"i", "n", "/", "a", " ", "b", ".", "x", "m">>
    [] s = "a/.mod" -> <<"a", "/", ".", "m", "o", "d">>
    [] s = "x/../../y" -> <<"x", "/", ".", ".", "/", ".", ".", "/", "y">>
    [] s = "..xm" -> <<".", ".", "x", "m">>
    [] s = "...xm" -> <<".", ".", ".", "x", "m">>
    [] s = "c:\\x?.it" -> <<"c", ":", "\\", "x", "?", ".", "i", "t">>
    [] s = "0" -> <<"0">>
    [] s = "1" -> <<"1">>
    [] s = "2" -> <<"2">>
    [] s = "3" -> <<"3">>
    [] s = "4" -> <<"4">>
    [] s = "5" -> <<"5">>
    [] s = "10" -> <<"1", "0">>
    [] s = "11" -> <<"1", "1">>
    [] s = "15" -> <<"1", "5">>
    [] s = "16" -> <<"1", "6">>
    [] s = "24" -> <<"2", "4">>
    [] s = "64" -> <<"6", "4">>
    [] s = "96" -> <<"9", "6">>
    [] s = "200" -> <<"2", "0", "0">>
    [] s = "201" -> <<"2", "0", "1">>
    [] s = "512" -> <<"5", "1", "2">>
    [] s = "513" -> <<"5", "1", "3">>
    [] s = "7999" -> <<"7", "9", "9", "9">>
    [] s = "8000" -> <<"8", "0", "0", "0">>
    [] s = "44100" -> <<"4", "4", "1", "0", "0">>
    [] s = "48000" -> <<"4", "8", "0", "0", "0">>
    [] s = "192000" -> <<"1", "9", "2", "0", "0", "0">>
    [] s = "192001" -> <<"1", "9", "2", "0", "0", "1">>
    [] s = "4abc" -> <<"4", "a", "b", "c">>
    [] s = "+4" -> <<"+", "4">>
    [] s = " 4" -> <<" ", "4">>
    [] s = "\t4" -> <<"\t", "4">>
    [] s = "4" -> <<"", "4">>
    [] s = "\n\f\r 4" -> <<"\n", "\f", "\r", " ", "4">>
    [] s = "04" -> <<"0", "4">>
    [] s = "4 " -> <<"4", " ">>
    [] s = "16.5" -> <<"1", "6", ".", "5">>
    [] s = "-1" -> <<"-", "1">>
    [] s = "-0" -> <<"-", "0">>
    [] s = "0x10" -> <<"0", "x", "1", "0">>
    [] s = "+-4" -> <<"+", "-", "4">>
    [] s = "- 4" -> <<"-", " ", "4">>
    [] s = "abc" -> <<"a", "b", "c">>
    [] s = "2147483647" -> <<"2", "1", "4", "7", "4", "8", "3", "6", "4", "7">>
    [] s = "2147483648" -> <<"2", "1", "4", "7", "4", "8", "3", "6", "4", "8">>
    [] s = "99999999999" -> <<"9", "9", "9", "9", "9", "9", "9", "9", "9", "9", "9">>
    [] s = "" -> <<>>
    [] OTHER -> <<"?">>

\* Largest index i with s[i] in cs, 0 when there is none
\* (std::string::find_last_of, npos mapped to 0, indices 1-based).
find_last_of(s, cs) ==
  LET hits == {i \in DOMAIN s : s[i] \in cs}
  IN IF hits = {} THEN 0 ELSE CHOOSE i \in hits : \A j \in hits : j <= i

\* ------------------------------------------------------------ options
\* struct AudioOptions with its default member initialisers.
DefaultOptions ==
  [sample_rate |-> 44100,
   channels |-> 2,
   interpolation_filter |-> 4,
   stereo_separation |-> 100,
   output_format |-> "wav",
   bit_depth |-> 16,
   opus_bitrate |-> 128,
   vorbis_quality |-> 5]

\* std::stoi(str), base 10: strtol skips leading white space (isspace:
\* space, \t, \n, \v, \f, \r), takes one sign and the longest run of digits,
\* and ignores what follows.
\* The vertical tab (code 11) has no escape: the character itself stands
\* between the quotes.
VerticalTab == ""

IsSpace(c) == c \in {" ", "\t", "\n", VerticalTab, "\f", "\r"}

IsDigit(c) == \E d \in DOMAIN Digit : Digit[d] = c

DigitValue(c) == CHOOSE d \in 0 .. 9 : Digit[d + 1] = c

RECURSIVE SkipSpaces(_)
SkipSpaces(cs) ==
  IF cs # <<>> /\ IsSpace(Head(cs)) THEN SkipSpaces(Tail(cs)) ELSE cs

SkipSign(cs) == IF cs # <<>> /\ Head(cs) \in {"+", "-"} THEN Tail(cs) ELSE cs

RECURSIVE LeadingDigits(_)
LeadingDigits(cs) ==
  IF cs # <<>> /\ IsDigit(Head(cs))
    THEN <<Head(cs)>> \o LeadingDigits(Tail(cs))
    ELSE <<>>

RECURSIVE SkipZeros(_)
SkipZeros(ds) ==
  IF Len(ds) > 1 /\ Head(ds) = "0" THEN SkipZeros(Tail(ds)) ELSE ds

\* The value of the first k digits of ds.
RECURSIVE ValueOfFirst(_, _)
ValueOfFirst(ds, k) ==
  IF k = 0 THEN 0 ELSE 10 * ValueOfFirst(ds, k - 1) + DigitValue(ds[k])

DecimalValue(ds) == ValueOfFirst(ds, Len(ds))

\* The sign and the digits std::stoi reads from token s.
StoiNegative(s) ==
  LET cs == SkipSpaces(Chars(s)) IN cs # <<>> /\ Head(cs) = "-"

StoiDigits(s) == SkipZeros(LeadingDigits(SkipSign(SkipSpaces(Chars(s)))))

\* The digits are a value of int (32 bits): at most 2147483647, or
\* 2147483648 after a minus sign.
FitsInt(ds, negative) ==
  \/ Len(ds) < 10
  \/ /\ Len(ds) = 10
     /\ LET high == ValueOfFirst(ds, 9)
            low == DigitValue(ds[10])
        IN \/ high < 214748364
           \/ high = 214748364 /\ low <= (IF negative THEN 8 ELSE 7)

\* std::stoi returns: there is a digit to read (else std::invalid_argument)
\* and the number is a value of int (else std::out_of_range).
StoiReturns(s) ==
  StoiDigits(s) # <<>> /\ FitsInt(StoiDigits(s), StoiNegative(s))

\* The number std::stoi returns (the model has no token for INT_MIN).
StoiValue(s) ==
  IF StoiNegative(s) THEN 0 - DecimalValue(StoiDigits(s))
  ELSE DecimalValue(StoiDigits(s))

\* Values given to the numeric options: numbers at and around the limits of
\* the ranges, and tokens std::stoi reads in part, with a sign, after white
\* space, not at all, or as a number too large for int.
NumberTokens ==
  {"0", "1", "2", "3", "4", "5", "10", "11", "15", "16", "24", "64", "96",
   "200", "201", "512", "513", "7999", "8000", "44100", "48000", "192000",
   "192001", "4abc", "+4", " 4", "\t4", "4", "\n\f\r 4", "04", "4 ",
   "16.5", "-1", "-0", "0x10", "+-4", "- 4", "abc", "", "2147483647",
   "2147483648", "99999999999"}

\* std::stoi worked out once for every value token: the tokens it returns
\* a number for, and the number.
StoiTable ==
  [t \in {u \in NumberTokens : StoiReturns(u)} |-> StoiValue(t)]

IsNumber(s) == s \in DOMAIN StoiTable
stoi(s) == StoiTable[s]

\* A parser that accepts every number.
ValidNumberUnchecked(arg, n) == TRUE

\* The range and set checks parseArguments makes on a parsed number.
ValidNumber(arg, n) ==
  CASE arg = "--sample-rate" -> n >= 8000 /\ n <= 192000
    [] arg = "--channels" -> n \in {1, 2, 4}
    [] arg = "--bit-depth" -> n \in {16, 24}
    [] arg = "--opus-bitrate" -> n >= 16 /\ n <= 512
    [] arg = "--vorbis-quality" -> n >= 0 /\ n <= 10
    [] arg = "--stereo-separation" -> n >= 0 /\ n <= 200

\* The member of AudioOptions a numeric option assigns.
SetNumber(o, arg, n) ==
  CASE arg = "--sample-rate" -> [o EXCEPT !.sample_rate = n]
    [] arg = "--channels" -> [o EXCEPT !.channels = n]
    [] arg = "--bit-depth" -> [o EXCEPT !.bit_depth = n]
    [] arg = "--opus-bitrate" -> [o EXCEPT !.opus_bitrate = n]
    [] arg = "--vorbis-quality" -> [o EXCEPT !.vorbis_quality = n]
    [] arg = "--stereo-separation" -> [o EXCEPT !.stereo_separation = n]

NumericOptions ==
  {"--sample-rate", "--channels", "--bit-depth", "--opus-bitrate",
   "--vorbis-quality", "--stereo-separation"}

\* --resample METHOD: an unknown method is reported and replaced by sinc.
ResampleFilter(method) ==
  CASE method = "linear" -> 2
    [] method = "cubic" -> 4
    [] method \in {"sinc", "8tap"} -> 8
    [] method = "nearest" -> 1
    [] OTHER -> 8

\* The argument loop of parseArguments from argv[i] on. args is argv without
\* argv[0]. status: "run" (loop finished), "throw" (std::runtime_error,
\* std::invalid_argument or std::out_of_range left the function), "help"
\* (exit(0) was called).
RECURSIVE ParseLoop(_, _, _)
ParseLoop(args, i, st) ==
  IF i > Len(args) THEN st
  ELSE
    LET arg == args[i]
        has == i + 1 <= Len(args)
        val == IF has THEN args[i + 1] ELSE ""
    IN
      IF arg = "-i" /\ has
        THEN ParseLoop(args, i + 2, [st EXCEPT !.input_file = val])
      ELSE IF arg = "-o" /\ has
        THEN ParseLoop(args, i + 2, [st EXCEPT !.output_dir = val])
      ELSE IF arg \in NumericOptions /\ has
        THEN IF IsNumber(val) /\ ValidNumber(arg, stoi(val))
               THEN ParseLoop(args, i + 2,
                      [st EXCEPT !.opts = SetNumber(st.opts, arg, stoi(val))])
               ELSE [st EXCEPT !.status = "throw"]
      ELSE IF arg = "--resample" /\ has
        THEN ParseLoop(args, i + 2,
               [st EXCEPT !.opts.interpolation_filter = ResampleFilter(val)])
      ELSE IF arg = "--format" /\ has
        THEN ParseLoop(args, i + 2, [st EXCEPT !.opts.output_format = val])
      ELSE IF arg = "--help"
        THEN [st EXCEPT !.status = "help"]
      ELSE ParseLoop(args, i + 1, st)

\* A parser without the opus rule.
OpusDefaultMissing(o) == o

\* The opus rule after the loop: 44100 becomes 48000.
OpusDefault(o) ==
  IF o.output_format = "opus" /\ o.sample_rate = 44100
    THEN [o EXCEPT !.sample_rate = 48000]
    ELSE o

parseArguments(args) ==
  LET st == ParseLoop(args, 1,
              [opts |-> DefaultOptions, input_file |-> "", output_dir |-> "",
               status |-> "run"])
  IN IF st.status = "run" THEN [st EXCEPT !.opts = OpusDefault(st.opts)] ELSE st

\* ------------------------------------------------------------ file names
\* A list of replaced characters that lacks the space.
BadCharsWithoutSpace == {"<", ">", ":", "\"", "/", "\\", "|", "?", "*"}

\* StemExtractor::sanitize_filename.
BadChars == {"<", ">", ":", "\"", "/", "\\", "|", "?", "*", " "}

sanitize_filename(name) ==
  IF name = <<>> THEN <<"u", "n", "k", "n", "o", "w", "n">>
  ELSE
    LET sanitized == [i \in DOMAIN name |->
                        IF name[i] \in BadChars THEN "_" ELSE name[i]]
    IN IF sanitized = <<".">> \/ sanitized = <<".", ".">>
         THEN <<"_">>
         ELSE sanitized

\* The module name: the input path after its last '/' or '\', cut at its
\* last '.'.
ModuleName(path) ==
  LET base == SubSeq(path, find_last_of(path, {"/", "\\"}) + 1, Len(path))
      dot_pos == find_last_of(base, {"."})
  IN IF dot_pos # 0 THEN SubSeq(base, 1, dot_pos - 1) ELSE base

ModuleOutputDir(out_dir, in_path) ==
  Chars(out_dir) \o <<"/">> \o sanitize_filename(ModuleName(Chars(in_path)))

\* A display name without the positional fallback.
VoiceNameAsListed(nms, samples, i) ==
  IF i < Len(nms) THEN nms[i + 1] ELSE <<>>

\* The display name of voice i: its entry of the name list when there is a
\* non-empty one, else sample_<i+1> or instrument_<i+1>.
VoiceName(nms, samples, i) ==
  IF i < Len(nms) /\ nms[i + 1] # <<>>
    THEN nms[i + 1]
    ELSE IF samples
      THEN <<"s", "a", "m", "p", "l", "e", "_">> \o to_string(i + 1)
      ELSE <<"i", "n", "s", "t", "r", "u", "m", "e", "n", "t", "_">>
             \o to_string(i + 1)

\* Padding to three digits without cutting longer numbers.
InstrumentNumberUntruncated(i) ==
  LET s == to_string(i + 1)
  IN IF Len(s) >= 3 THEN s
     ELSE SubSeq(<<"0", "0", "0">> \o s, Len(s) + 1, Len(s) + 3)

\* Numbering from 000: the loop index without the + 1.
InstrumentNumberZeroBased(i) ==
  LET s == <<"0", "0", "0">> \o to_string(i)
  IN SubSeq(s, Len(s) - 2, Len(s))

\* A number field of two digits.
InstrumentNumberLastTwo(i) ==
  LET s == <<"0", "0", "0">> \o to_string(i + 1)
  IN <<"0">> \o SubSeq(s, Len(s) - 1, Len(s))

\* "000" + to_string(i + 1), last three characters.
InstrumentNumber(i) ==
  LET s == <<"0", "0", "0">> \o to_string(i + 1)
  IN SubSeq(s, Len(s) - 2, Len(s))

OutputFilename(dir, name, i, format) ==
  IF name # <<>>
    THEN dir \o <<"/">> \o InstrumentNumber(i) \o <<"-">>
           \o sanitize_filename(name) \o <<".">> \o Chars(format)
    ELSE dir \o <<"/">> \o InstrumentNumber(i) \o <<".">> \o Chars(format)

\* ------------------------------------------------------------ state
VARIABLES
  argv,           \* the command line after argv[0]
  inputOk,        \* the input file can be opened and the engine loads it
  module,         \* what the engine reports and plays for the loaded module
  pc,             \* where main() is
  exitCode,       \* "none" while running, "0" or "1", "crash" for an abnormal end
  options,        \* AudioOptions: parseArguments' result, then StemExtractor's
  input_path, output_dir,
  num_instruments, using_samples, names,
  idx,            \* the loop variable of extractStems
  muted,          \* engine: the mute flag of every voice
  position,       \* engine: playback position, in blocks of BUFFER_SIZE frames
  filter,         \* engine: RENDER_INTERPOLATIONFILTER_LENGTH
  separation,     \* engine: RENDER_STEREOSEPARATION_PERCENT
  has_any_audio,
  outfile,        \* the SNDFILE*: "null", "open", or "closed" (freed, dangling)
  output_filename,
  dirs, files,    \* file system: directories created, stem files that exist
  log,            \* what was printed: <<kind, voice>>
  opened, closes, \* sinks opened so far, sf_close calls per voice's sink
  pulls,          \* reads made from the engine: <<voice, "probe" | "render">>
  commands,       \* mute commands sent to the engine: <<voice, value>>
  reads,          \* engine entry points used: <<"probe" | "render", entry>>
  sf_infos,       \* the SF_INFO of every sink opened: <<voice, info>>
  exception,      \* the exception main catches: "none" or what threw it
  sanitized       \* what the last call of sanitize_filename returned

vars ==
  <<argv, inputOk, module, pc, exitCode, options, input_path, output_dir,
    num_instruments, using_samples, names, idx, muted, position, filter,
    separation, has_any_audio, outfile, output_filename, dirs, files, log,
    opened, closes, pulls, commands, reads, sf_infos, exception, sanitized>>

env == <<argv, inputOk, module>>

\* ------------------------------------------------------------ engine
\* An enumeration that looks at the sample count first.
VoiceCountSamplesFirst(m) ==
  IF m.num_samples > 0 THEN m.num_samples
  ELSE IF m.num_instruments # 0 THEN m.num_instruments
  ELSE IF m.is_mod THEN 31
  ELSE m.num_channels

\* The voice count and kind extractStems settles on, from the engine's
\* instrument count, sample count, "type" metadata and channel count.
VoiceCount(m) ==
  IF m.num_instruments # 0 THEN m.num_instruments
  ELSE IF m.num_samples > 0 THEN m.num_samples
  ELSE IF m.is_mod THEN 31
  ELSE m.num_channels

UsingSamples(m) ==
  m.num_instruments = 0 /\ (m.num_samples > 0 \/ m.is_mod)

\* get_instrument_names is called outside any try block: when it throws,
\* the exception leaves extractStems.
NamesThrow(m) == ~UsingSamples(m) /\ m.names_throw

\* The name list extractStems ends up with: the sample names (empty strings
\* when get_sample_names throws) or the instrument names.
VoiceNames(m) ==
  IF UsingSamples(m)
    THEN IF m.names_throw
           THEN [i \in 1 .. VoiceCount(m) |-> <<>>]
           ELSE m.sample_names
    ELSE m.instrument_names

VoiceIds(m) == 0 .. (VoiceCount(m) - 1)

\* interactive->set_instrument_mute_status(i, value) inside its try block:
\* a rejected command throws, is caught, and leaves the mute map as it was.
set_instrument_mute_status(mu, i, value) ==
  IF i \in module.rejects THEN mu ELSE [mu EXCEPT ![i] = value]

\* An initial loop that the first rejected command ends.
MuteAllFromUntilReject(mu, i, n) ==
  [v \in DOMAIN mu |->
     IF v >= i /\ v < n /\ \A r \in module.rejects : r < i \/ r > v
       THEN TRUE
       ELSE mu[v]]

\* The initial loop that mutes every voice: one command per voice from i
\* up to n - 1, each changing the flag of its own voice only.
MuteAllFrom(mu, i, n) ==
  [v \in DOMAIN mu |->
     IF v >= i /\ v < n
       THEN set_instrument_mute_status(mu, v, TRUE)[v]
       ELSE mu[v]]

\* The commands the initial loop sends from voice i on: the try block is
\* inside the loop, so a rejected command does not end it.
MuteAllIssued(i, n) == {<<v, TRUE>> : v \in i .. (n - 1)}

\* The read call both loops choose from the channel count.
ReadEntryPoint(channels) ==
  IF channels = 1 THEN "read"
  ELSE IF channels = 2 THEN "read_interleaved_stereo"
  ELSE "read_interleaved_quad"

\* The SF_INFO a sink is opened with: container and encoding by output
\* format (WAV for an unknown one), PCM width by bit depth.
SfInfo(o) ==
  LET pcm == IF o.bit_depth = 16 THEN "PCM_16" ELSE "PCM_24"
  IN [samplerate |-> o.sample_rate,
      channels |-> o.channels,
      format |-> IF o.output_format = "flac" THEN <<"FLAC", pcm>>
                 ELSE IF o.output_format = "vorbis" THEN <<"OGG", "VORBIS">>
                 ELSE IF o.output_format = "opus" THEN <<"OGG", "OPUS">>
                 ELSE <<"WAV", pcm>>]

\* A probe that takes only samples above an epsilon for audio.
ExceedsEpsilon(sample) == sample = "loud"

\* check_buffer[i] != 0.0f on a sample that is "zero", "denormal" (not zero,
\* of denormal magnitude) or "loud".
IsNonZero(sample) == sample # "zero"

\* The engine mixes the unmuted voices: the samples they put into the block
\* at position p. A voice sounds from block onset[v] on (onset[v] = length:
\* never), at the magnitude level[v].
BlockSamples(mu, p) ==
  {IF module.onset[v] <= p THEN module.level[v] ELSE "zero" :
     v \in {w \in DOMAIN mu : ~mu[w]}}

\* The probe's scan of a block: some sample in it is not zero.
BlockHasAudio(mu, p) == \E sample \in BlockSamples(mu, p) : IsNonZero(sample)

\* mod->read...(): frames returned for the block at position p, 0 at the end.
SamplesRead(p) == IF p >= module.length THEN 0 ELSE 1

\* A probe without the duration test.
ReachedDurationIgnored(p) == FALSE

\* current_pos >= duration * 0.99
ReachedDuration(p) == 100 * p >= 99 * module.duration

\* ------------------------------------------------------------ main
\* main: parseArguments, then the check that -i and -o were given.
ParseArguments ==
  /\ pc = "main"
  /\ LET r == parseArguments(argv)
     IN /\ options' = r.opts
        /\ input_path' = r.input_file
        /\ output_dir' = r.output_dir
        /\ IF r.status = "help" THEN pc' = "exit" /\ exitCode' = "0"
           ELSE IF r.status = "throw" THEN pc' = "catch" /\ exitCode' = exitCode
           ELSE IF r.input_file = "" \/ r.output_dir = ""
             THEN pc' = "exit" /\ exitCode' = "1"
           ELSE pc' = "construct" /\ exitCode' = exitCode
        /\ exception' = IF r.status = "throw" THEN "parse" ELSE exception
  /\ UNCHANGED <<env, num_instruments, using_samples, names, idx, muted,
                 position, filter, separation, has_any_audio, outfile,
                 output_filename, dirs, files, log, opened, closes, pulls,
                 commands, reads, sf_infos, sanitized>>

\* A constructor that stores the options as parsed.
AdjustedOptionsAsGiven(o) == o

\* The options the constructor stores: mono when stereo separation is 0.
AdjustedOptions(o) ==
  IF o.stereo_separation = 0 THEN [o EXCEPT !.channels = 1] ELSE o

\* A constructor that goes on with a file it could not open or load.
InputLoadsUnchecked == TRUE

\* Whether the constructor gets a loaded module: the file opens and
\* libopenmpt accepts it.
InputLoads == inputOk

\* StemExtractor::StemExtractor: open and load the file (throws when it
\* cannot), adjust the options, set the two render parameters.
Construct ==
  /\ pc = "construct"
  /\ IF ~InputLoads
       THEN /\ pc' = "catch"
            /\ exception' = "open_input"
            /\ UNCHANGED <<options, filter, separation>>
       ELSE /\ pc' = "enumerate"
            /\ options' = AdjustedOptions(options)
            /\ filter' = options'.interpolation_filter
            /\ separation' = options'.stereo_separation
            /\ UNCHANGED exception
  /\ UNCHANGED <<env, exitCode, input_path, output_dir, num_instruments,
                 using_samples, names, idx, muted, position, has_any_audio,
                 outfile, output_filename, dirs, files, log, opened, closes,
                 pulls, commands, reads, sf_infos, sanitized>>

\* The catch block of main: report, return 1.
MainCatch ==
  /\ pc = "catch"
  /\ pc' = "exit"
  /\ exitCode' = "1"
  /\ UNCHANGED <<env, options, input_path, output_dir, num_instruments,
                 using_samples, names, idx, muted, position, filter,
                 separation, has_any_audio, outfile, output_filename, dirs,
                 files, log, opened, closes, pulls, commands, reads, sf_infos,
                 exception, sanitized>>

\* A main that reports failure when no stem file was written.
MainReturnCodeNeedsStems == IF files = {} THEN "1" ELSE "0"

\* The value main returns after extractStems has returned.
MainReturnCode == "0"

\* extractStems has returned: main prints its success line and returns 0.
MainReturn ==
  /\ pc = "returned"
  /\ pc' = "exit"
  /\ exitCode' = MainReturnCode
  /\ log' = log \cup {<<"success", -1>>}
  /\ UNCHANGED <<env, options, input_path, output_dir, num_instruments,
                 using_samples, names, idx, muted, position, filter,
                 separation, has_any_audio, outfile, output_filename, dirs,
                 files, opened, closes, pulls, commands, reads, sf_infos,
                 exception, sanitized>>

\* ------------------------------------------------------------ extractStems
\* Voice count, kind and names; return when the engine has no interactive
\* interface.
Enumerate ==
  /\ pc = "enumerate"
  /\ IF NamesThrow(module)
       THEN /\ pc' = "catch"
            /\ exception' = "names"
            /\ UNCHANGED <<num_instruments, using_samples, names>>
       ELSE /\ num_instruments' = VoiceCount(module)
            /\ using_samples' = UsingSamples(module)
            /\ names' = VoiceNames(module)
            /\ pc' = IF module.interactive THEN "mute_all" ELSE "returned"
            /\ UNCHANGED exception
  /\ UNCHANGED <<env, exitCode, options, input_path, output_dir, idx, muted,
                 position, filter, separation, has_any_audio, outfile,
                 output_filename, dirs, files, log, opened, closes, pulls,
                 commands, reads, sf_infos, sanitized>>

\* "Mute all instruments/samples initially (once)".
MuteAll ==
  /\ pc = "mute_all"
  /\ muted' = MuteAllFrom(muted, 0, num_instruments)
  /\ commands' = commands \cup MuteAllIssued(0, num_instruments)
  /\ pc' = "mkdir"
  /\ UNCHANGED <<env, exitCode, options, input_path, output_dir,
                 num_instruments, using_samples, names, idx, position, filter,
                 separation, has_any_audio, outfile, output_filename, dirs,
                 files, log, opened, closes, pulls, reads, sf_infos,
                 exception, sanitized>>

\* The module output directory; std::filesystem::create_directories throws
\* when it cannot create it.
MakeDirectory ==
  /\ pc = "mkdir"
  /\ \E created \in BOOLEAN :
       IF created
         THEN /\ dirs' = dirs \cup {ModuleOutputDir(output_dir, input_path)}
              /\ idx' = 0
              /\ pc' = "loop"
              /\ UNCHANGED exception
         ELSE /\ pc' = "catch"
              /\ exception' = "mkdir"
              /\ UNCHANGED <<dirs, idx>>
  /\ sanitized' = sanitize_filename(ModuleName(Chars(input_path)))
  /\ UNCHANGED <<env, exitCode, options, input_path, output_dir,
                 num_instruments, using_samples, names, muted, position,
                 filter, separation, has_any_audio, outfile, output_filename,
                 files, log, opened, closes, pulls, commands, reads, sf_infos>>

\* A loop that forgets to unmute the voice it is about to extract.
UnmuteForgotten(mu, i) == mu

\* "Unmute only the current instrument/sample".
UnmuteCurrent(mu, i) == set_instrument_mute_status(mu, i, FALSE)

\* The loop head and the start of an iteration: name, unmute, seek to 0,
\* file name, probe filter (nearest), seek to 0.
IterStart ==
  /\ pc = "loop"
  /\ IF idx >= num_instruments
       THEN /\ pc' = "returned"
            /\ UNCHANGED <<muted, position, filter, has_any_audio,
                           output_filename, commands, sanitized>>
       ELSE /\ muted' = UnmuteCurrent(muted, idx)
            /\ commands' = commands \cup {<<idx, FALSE>>}
            /\ sanitized' =
                 sanitize_filename(VoiceName(names, using_samples, idx))
            /\ position' = 0
            /\ output_filename' =
                 OutputFilename(ModuleOutputDir(output_dir, input_path),
                                VoiceName(names, using_samples, idx), idx,
                                options.output_format)
            /\ has_any_audio' = FALSE
            /\ filter' = 1
            /\ pc' = "probe"
  /\ UNCHANGED <<env, exitCode, options, input_path, output_dir,
                 num_instruments, using_samples, names, idx, separation,
                 outfile, dirs, files, log, opened, closes, pulls, reads,
                 sf_infos, exception>>

\* One turn of the first-pass loop: read a block, stop on zero frames, on a
\* non-zero sample, or at 99% of the duration.
ProbePull ==
  /\ pc = "probe"
  /\ pulls' = pulls \cup {<<idx, "probe">>}
  /\ reads' = reads \cup {<<"probe", ReadEntryPoint(options.channels)>>}
  /\ LET samples_read == SamplesRead(position)
         found == BlockHasAudio(muted, position)
     IN IF samples_read = 0
          THEN /\ pc' = "probe_end"
               /\ UNCHANGED <<position, has_any_audio>>
          ELSE /\ position' = position + samples_read
               /\ has_any_audio' = found
               /\ pc' = IF found \/ ReachedDuration(position')
                          THEN "probe_end" ELSE "probe"
  /\ UNCHANGED <<env, exitCode, options, input_path, output_dir,
                 num_instruments, using_samples, names, idx, muted, filter,
                 separation, outfile, output_filename, dirs, files, log,
                 opened, closes, commands, sf_infos, exception, sanitized>>

\* An iteration that leaves its voice unmuted when it ends.
MuteBackForgotten(mu, i) == mu

\* "Mute back the current instrument/sample" at the end of an iteration.
MuteBack(mu, i) == set_instrument_mute_status(mu, i, TRUE)

\* A probe that leaves its own filter in place.
RestoredFilterForgotten(o) == 1

\* "Restore the original interpolation setting": the filter length the
\* engine is given after the probe.
RestoredFilter(o) == o.interpolation_filter

\* A render pass that starts where the probe stopped.
RewindForgotten(p) == p

\* mod->set_position_seconds(0.0) before the render pass.
Rewind(p) == 0

\* After the probe: restore the interpolation filter; a silent voice is
\* reported, muted again and skipped; otherwise seek to 0 for the render.
ProbeEnd ==
  /\ pc = "probe_end"
  /\ filter' = RestoredFilter(options)
  /\ IF ~has_any_audio
       THEN /\ log' = log \cup {<<"skip_silent", idx>>}
            /\ muted' = MuteBack(muted, idx)
            /\ commands' = commands \cup {<<idx, TRUE>>}
            /\ idx' = idx + 1
            /\ pc' = "loop"
            /\ UNCHANGED position
       ELSE /\ position' = Rewind(position)
            /\ pc' = "open"
            /\ UNCHANGED <<log, muted, idx, commands>>
  /\ UNCHANGED <<env, exitCode, options, input_path, output_dir,
                 num_instruments, using_samples, names, separation,
                 has_any_audio, outfile, output_filename, dirs, files, opened,
                 closes, pulls, reads, sf_infos, exception, sanitized>>

\* sf_open for writing: a sink (and its file), or NULL; on NULL the voice is
\* reported, muted again and skipped.
OpenSink ==
  /\ pc = "open"
  /\ \E ok \in BOOLEAN :
       IF ok
         THEN /\ outfile' = "open"
              /\ opened' = opened \cup {idx}
              /\ files' = files \cup {output_filename}
              /\ sf_infos' = sf_infos \cup {<<idx, SfInfo(options)>>}
              /\ pc' = "render"
              /\ UNCHANGED <<log, muted, idx, commands>>
         ELSE /\ log' = log \cup {<<"open_error", idx>>}
              /\ muted' = MuteBack(muted, idx)
              /\ commands' = commands \cup {<<idx, TRUE>>}
              /\ idx' = idx + 1
              /\ pc' = "loop"
              /\ UNCHANGED <<outfile, opened, files, sf_infos>>
  /\ UNCHANGED <<env, exitCode, options, input_path, output_dir,
                 num_instruments, using_samples, names, position, filter,
                 separation, has_any_audio, output_filename, dirs, closes,
                 pulls, reads, exception, sanitized>>

\* std::filesystem::remove(output_filename) after a short write: the file
\* is removed, or the call throws std::filesystem::filesystem_error and the
\* file stays.
RemoveOutcomes == {"removed", "throws"}

\* One turn of the render loop: read a block, stop on zero frames; write it;
\* on a short write report, sf_close, remove the file and stop; when the
\* file cannot be removed the exception leaves extractStems.
RenderPull ==
  /\ pc = "render"
  /\ pulls' = pulls \cup {<<idx, "render">>}
  /\ reads' = reads \cup {<<"render", ReadEntryPoint(options.channels)>>}
  /\ LET samples_read == SamplesRead(position)
     IN IF samples_read = 0
          THEN /\ pc' = "close"
               /\ UNCHANGED <<position, log, closes, outfile, files,
                              exception>>
          ELSE /\ position' = position + samples_read
               /\ \E short \in BOOLEAN :
                    IF short
                      THEN /\ log' = log \cup {<<"write_error", idx>>}
                           /\ closes' = [closes EXCEPT ![idx] = @ + 1]
                           /\ outfile' = "closed"
                           /\ \E outcome \in RemoveOutcomes :
                                IF outcome = "removed"
                                  THEN /\ files' = files \ {output_filename}
                                       /\ pc' = "close"
                                       /\ UNCHANGED exception
                                  ELSE /\ pc' = "catch"
                                       /\ exception' = "remove"
                                       /\ UNCHANGED files
                      ELSE /\ pc' = "render"
                           /\ UNCHANGED <<log, closes, outfile, files,
                                          exception>>
  /\ UNCHANGED <<env, exitCode, options, input_path, output_dir,
                 num_instruments, using_samples, names, idx, muted, filter,
                 separation, has_any_audio, output_filename, dirs, opened,
                 commands, sf_infos, sanitized>>

\* What sf_close(outfile) after the render loop can do. On an open sink it
\* closes it. After the short-write path the sink is already closed and
\* freed: the call reads freed memory, and either returns or ends the
\* process abnormally.
CloseOutcomes(sink) ==
  IF sink = "open" THEN {"closed"} ELSE {"returned", "crash"}

\* A close that leaves the sink as it was.
ReleasedNever(sink) == sink

\* sf_close(outfile) at the end of the iteration: the iteration's sink is
\* released and the local handle goes out of scope.
Released(sink) == "null"

\* After the render loop: sf_close, "Extracted stem", mute the voice again.
CloseSink ==
  /\ pc = "close"
  /\ closes' = [closes EXCEPT ![idx] = @ + 1]
  /\ \E outcome \in CloseOutcomes(outfile) :
       IF outcome = "crash"
         THEN /\ pc' = "exit"
              /\ exitCode' = "crash"
              /\ UNCHANGED <<log, muted, idx, outfile, commands>>
         ELSE /\ outfile' = Released(outfile)
              /\ log' = log \cup {<<"extracted", idx>>}
              /\ muted' = MuteBack(muted, idx)
              /\ commands' = commands \cup {<<idx, TRUE>>}
              /\ idx' = idx + 1
              /\ pc' = "loop"
              /\ UNCHANGED exitCode
  /\ UNCHANGED <<env, options, input_path, output_dir, num_instruments,
                 using_samples, names, position, filter, separation,
                 has_any_audio, output_filename, dirs, files, opened, pulls,
                 reads, sf_infos, exception, sanitized>>

\* ------------------------------------------------------------ inputs
\* Names the engine reports, by voice (a voice past the list has none).
StockNames ==
  << <<"K", "i", "c", "k">>, <<>>, <<"a", " ", "b", "/", "c">> >>

Min(a, b) == IF a < b THEN a ELSE b

NamesFor(n) == SubSeq(StockNames, 1, Min(n, Len(StockNames)))

\* A module with n voices of the kind the counts select.
Module(ni, ns, mod, nc, on, len, dur, rej, inter, nthrow) ==
  [num_instruments |-> ni, num_samples |-> ns, is_mod |-> mod,
   num_channels |-> nc, instrument_names |-> NamesFor(ni),
   sample_names |-> NamesFor(ns), names_throw |-> nthrow,
   interactive |-> inter, onset |-> on, length |-> len, duration |-> dur,
   rejects |-> rej, level |-> [v \in DOMAIN on |-> "loud"]]

\* Onsets per voice: at once, in the last block, or never (onset = length).
Onsets(n, len) == [0 .. (n - 1) -> {0, len - 1, len}]

\* Sets of voices the engine rejects mute commands for.
RejectSets(n) == SUBSET (0 .. (n - 1))

\* Modules with instruments: every count, length and onset; the reported
\* duration is the length, with every set of rejected voices, or one block
\* only, with every mute command accepted.
InstrumentModulesOf(n, len) ==
  {Module(n, 0, FALSE, 4, on, len, len, rej, TRUE, FALSE) :
     on \in Onsets(n, len), rej \in RejectSets(n)}
  \cup
  {Module(n, 0, FALSE, 4, on, len, 1, {}, TRUE, FALSE) : on \in Onsets(n, len)}

InstrumentModules ==
  UNION {InstrumentModulesOf(n, len) :
           n \in 1 .. MaxVoices, len \in 1 .. MaxBlocks}

\* Modules whose reported duration is longer than what they play: the
\* engine returns zero frames before 99% of the duration is reached.
LongModulesOf(n, len) ==
  {Module(n, 0, FALSE, 4, on, len, len + 1, {}, TRUE, FALSE) :
     on \in Onsets(n, len)}

LongModules ==
  UNION {LongModulesOf(n, len) : n \in 1 .. 2, len \in 1 .. MaxBlocks}

\* Modules with a voice whose samples are all of denormal magnitude.
FaintModulesOf(n, len) ==
  {[Module(n, 0, FALSE, 4, on, len, len, {}, TRUE, FALSE)
      EXCEPT !.level = lv] :
     on \in Onsets(n, len),
     lv \in {l \in [0 .. (n - 1) -> {"denormal", "loud"}] :
               \E v \in 0 .. (n - 1) : l[v] = "denormal"}}

FaintModules ==
  UNION {FaintModulesOf(n, len) : n \in 1 .. 2, len \in 1 .. MaxBlocks}

\* What the engine may report as <<instruments, samples, type is MOD,
\* channels>>, each with the voice count it leads to.
EngineCounts ==
  {<<0, 2, FALSE, 4, 2>>, <<0, 0, FALSE, 2, 2>>, <<0, 0, FALSE, 0, 0>>,
   <<1, 0, FALSE, 4, 1>>, <<2, 1, FALSE, 4, 2>>, <<1, 2, TRUE, 4, 1>>,
   <<0, 2, TRUE, 4, 2>>}

\* Modules of every resolution tier, all voices audible, with or without
\* the interactive interface and failing name lists; the MOD heuristic's 31
\* silent voices.
FallbackModules ==
  {Module(c[1], c[2], c[3], c[4], [v \in 0 .. (c[5] - 1) |-> 0], 1, 1, {},
          inter, nthrow) :
     c \in EngineCounts, inter \in BOOLEAN, nthrow \in BOOLEAN}
  \cup
  {Module(0, 0, TRUE, 4, [v \in 0 .. 30 |-> 1], 1, 1, rej, TRUE, FALSE) :
     rej \in {{}, 0 .. 30}}

\* One audible instrument, one block.
TinyModule == Module(1, 0, FALSE, 4, [v \in {0} |-> 0], 1, 1, {}, TRUE, FALSE)

\* Option groups of the command line.
OptionGroups ==
  {<<"--sample-rate", "44100">>, <<"--sample-rate", "48000">>,
   <<"--sample-rate", "7999">>, <<"--channels", "4">>, <<"--channels", "3">>,
   <<"--channels", "1">>,
   <<"--resample", "linear">>, <<"--resample", "bogus">>,
   <<"--format", "opus">>, <<"--format", "flac">>, <<"--format", "mp3">>,
   <<"--bit-depth", "24">>, <<"--bit-depth", "15">>,
   <<"--bit-depth", "abc">>, <<"--opus-bitrate", "513">>,
   <<"--vorbis-quality", "11">>, <<"--stereo-separation", "0">>,
   <<"--stereo-separation", "201">>, <<"--help">>}

\* What may follow the option groups: nothing, or an option without value.
Tails == {<<>>, <<"--channels">>}

RECURSIVE Extras(_)
Extras(k) ==
  IF k = 0 THEN {<<>>}
  ELSE LET shorter == Extras(k - 1)
       IN shorter \cup {e \o g : <<e, g>> \in shorter \X OptionGroups}

BaseArgs ==
  {<<"-i", "song.mod", "-o", "out">>, <<"-i", "song.mod">>, <<"-o", "out">>}

PlainArgs == <<"-i", "in/a b.xm", "-o", "out">>

\* Command lines with one numeric option, before or after --format opus.
NumberArgs ==
  {<<"-i", "song.mod", "-o", "out">> \o pre \o <<flag, tok>> :
     pre \in {<<>>, <<"--format", "opus">>}, flag \in NumericOptions,
     tok \in NumberTokens}

\* ------------------------------------------------------------ specification
\* A command line of any shape on the one-voice module, a command line with
\* one numeric option of any value on it, or the plain command line on any
\* module; the input file may fail to open or load.
Init ==
  /\ \/ /\ argv \in {b \o e \o t :
                       b \in BaseArgs, e \in Extras(MaxExtra), t \in Tails}
        /\ module = TinyModule
        /\ inputOk \in BOOLEAN
     \/ /\ argv \in NumberArgs
        /\ module = TinyModule
        /\ inputOk = TRUE
     \/ /\ argv = PlainArgs
        /\ module \in InstrumentModules \cup FallbackModules \cup LongModules
                       \cup FaintModules
        /\ inputOk = TRUE
  /\ pc = "main"
  /\ exitCode = "none"
  /\ options = DefaultOptions
  /\ input_path = ""
  /\ output_dir = ""
  /\ num_instruments = 0
  /\ using_samples = FALSE
  /\ names = <<>>
  /\ idx = 0
  /\ muted = [v \in VoiceIds(module) |-> FALSE]
  /\ position = 0
  /\ filter = 0
  /\ separation = 0
  /\ has_any_audio = FALSE
  /\ outfile = "null"
  /\ output_filename = <<>>
  /\ dirs = {}
  /\ files = {}
  /\ log = {}
  /\ opened = {}
  /\ closes = [v \in VoiceIds(module) |-> 0]
  /\ pulls = {}
  /\ commands = {}
  /\ reads = {}
  /\ sf_infos = {}
  /\ exception = "none"
  /\ sanitized = <<>>

Next ==
  \/ ParseArguments
  \/ Construct
  \/ MainCatch
  \/ MainReturn
  \/ Enumerate
  \/ MuteAll
  \/ MakeDirectory
  \/ IterStart
  \/ ProbePull
  \/ ProbeEnd
  \/ OpenSink
  \/ RenderPull
  \/ CloseSink

Spec == Init /\ [][Next]_vars

\* The program is one thread: while a step is possible, it is taken.
FairSpec == Spec /\ WF_vars(Next)

\* ------------------------------------------------------------ file naming
\* The naming steps of extractStems on their own: the module directory
\* (MakeDirectory) and the file name of one voice (IterStart), started from
\* the states a run is in when it gets there, on a wider range of inputs
\* than the runs of Spec: names over the characters sanitize_filename looks
\* at, input paths with empty and dotted module names, and every voice of a
\* module with more than 999 voices.
NameAlphabet == BadChars \cup {"a", "."}

RECURSIVE NameStrings(_)
NameStrings(k) ==
  IF k = 0 THEN {<<>>}
  ELSE LET shorter == NameStrings(k - 1)
       IN shorter \cup {Append(n, c) : n \in shorter, c \in NameAlphabet}

LeadGuitarSolo ==
  <<"L", "e", "a", "d", " ", "G", "u", "i", "t", "a", "r", "/", "S", "o", "l",
    "o">>

NamerNames == NameStrings(MaxNameLen) \cup {LeadGuitarSolo}

NamerPaths == {"song.mod", "in/a b.xm", "a/.mod", "..xm", "...xm", "c:\\x?.it"}

NamerFormats == {"wav", "flac", "vorbis", "opus", "mp3", "x/../../y"}

\* The voices of the large module whose file names are made: those with
\* one-, two- and short three-digit numbers, and those around 1000.
NamerIndices == {k \in 0 .. (ManyVoices - 1) : k < 110 \/ k >= 990}

\* A silent module of n voices, instruments or samples, whose name list
\* is nms.
NamedModule(n, samples, nms) ==
  [Module(IF samples THEN 0 ELSE n, IF samples THEN n ELSE 0, FALSE, 4,
          [v \in 0 .. (n - 1) |-> 1], 1, 1, {}, TRUE, FALSE)
     EXCEPT !.instrument_names = IF samples THEN <<>> ELSE nms,
            !.sample_names = IF samples THEN nms ELSE <<>>]

\* The state of a run of module m that has muted every voice and found the
\* first k of them silent: before MakeDirectory (at_mkdir, k = 0) or at the
\* loop head with idx = k.
NamerState(path, format, m, k, at_mkdir) ==
  /\ argv = <<"-i", path, "-o", "out", "--format", format>>
  /\ inputOk = TRUE
  /\ module = m
  /\ pc = IF at_mkdir THEN "mkdir" ELSE "loop"
  /\ exitCode = "none"
  /\ options = AdjustedOptions(parseArguments(argv).opts)
  /\ input_path = path
  /\ output_dir = "out"
  /\ num_instruments = VoiceCount(m)
  /\ using_samples = UsingSamples(m)
  /\ names = VoiceNames(m)
  /\ idx = k
  /\ muted = [v \in VoiceIds(m) |-> TRUE]
  /\ position = IF k = 0 THEN 0 ELSE m.length
  /\ filter = options.interpolation_filter
  /\ separation = options.stereo_separation
  /\ has_any_audio = FALSE
  /\ outfile = "null"
  /\ output_filename =
       IF k = 0 THEN <<>>
       ELSE OutputFilename(ModuleOutputDir(output_dir, input_path),
                           VoiceName(names, using_samples, k - 1), k - 1,
                           options.output_format)
  /\ dirs = IF at_mkdir THEN {} ELSE {ModuleOutputDir(output_dir, input_path)}
  /\ files = {}
  /\ log = {<<"skip_silent", v>> : v \in 0 .. (k - 1)}
  /\ opened = {}
  /\ closes = [v \in VoiceIds(m) |-> 0]
  /\ pulls = {<<v, "probe">> : v \in 0 .. (k - 1)}
  /\ commands = MuteAllIssued(0, VoiceCount(m))
                  \cup {<<v, FALSE>> : v \in 0 .. (k - 1)}
  /\ reads = IF k = 0 THEN {}
             ELSE {<<"probe", ReadEntryPoint(options.channels)>>}
  /\ sf_infos = {}
  /\ exception = "none"
  /\ sanitized =
       IF at_mkdir THEN <<>>
       ELSE IF k = 0 THEN sanitize_filename(ModuleName(Chars(input_path)))
       ELSE sanitize_filename(VoiceName(names, using_samples, k - 1))

\* The name list of a module of n voices in which names repeat: the first
\* voice is "a/b", the last "a b", every second voice between them "a_b",
\* and the others have no name.
TwinNames(n) ==
  [i \in 1 .. n |->
     IF i = 1 THEN <<"a", "/", "b">>
     ELSE IF i = n THEN <<"a", " ", "b">>
     ELSE IF i % 2 = 0 THEN <<"a", "_", "b">>
     ELSE <<>>]

\* Voice counts of the modules with repeated names: the largest for which
\* every voice number has its own three digits, and one with more voices.
TwinCounts == {ManyVoices - 2, ManyVoices}

\* The voices of those modules whose file names are made: the first ones,
\* the ones a hundred later, and the last ones.
TwinIndices ==
  {k \in NamerIndices : k < 4 \/ k \in 100 .. 103 \/ k >= ManyVoices - 5}

NamerInit ==
  \/ \E path \in NamerPaths, format \in NamerFormats, samples \in BOOLEAN,
        n \in NamerNames :
       NamerState(path, format, NamedModule(1, samples, <<n>>), 0, TRUE)
  \/ \E format \in NamerFormats, samples \in BOOLEAN,
        k \in NamerIndices :
       NamerState("song.mod", format,
                  NamedModule(ManyVoices, samples, StockNames), k, FALSE)
  \/ \E format \in {"wav", "opus"}, samples \in BOOLEAN, n \in TwinCounts,
        k \in TwinIndices :
       /\ k < n
       /\ NamerState("song.mod", format,
                     NamedModule(n, samples, TwinNames(n)), k, FALSE)

NamerNext ==
  \/ MakeDirectory
  \/ IterStart

NamerSpec == NamerInit /\ [][NamerNext]_vars

\* ------------------------------------------------------------ properties
Voices == DOMAIN muted

Logged(kind, v) == <<kind, v>> \in log

\* extractStems returned after its loop visited every voice.
LoopCompleted == pc = "returned" /\ module.interactive

\* The decimal number in the three characters after the last '/' of a path.
FileNumber(path) ==
  LET k == find_last_of(path, {"/"})
  IN 100 * DigitValue(path[k + 1]) + 10 * DigitValue(path[k + 2])
       + DigitValue(path[k + 3])

\* Voices the silence probe found audible: probed and not skipped as silent.
FoundAudible == {v \in Voices : <<v, "probe">> \in pulls /\ ~Logged("skip_silent", v)}

\* C1: when extractStems returns from a run that processed all N voices, and
\* the engine accepts every mute command, every voice in [0, N) is unmuted.
C1_AllUnmutedOnReturn ==
  (LoopCompleted /\ module.rejects = {}) => \A v \in Voices : ~muted[v]

\* C2: when an exception raised after the voices were muted leaves
\* extractStems, every voice in [0, N) has been unmuted again.
C2_AllUnmutedOnAbort ==
  pc = "catch" => \A v \in Voices : ~muted[v]

\* C3: at every pull from the engine, in the probe and in the render pass,
\* with every mute command accepted, the current voice is unmuted and every
\* other voice is muted.
C3_Isolation ==
  (pc \in {"probe", "render"} /\ module.rejects = {})
    => \A v \in Voices : muted[v] = (v # idx)

\* A render pull for the third voice after a write error and a silent skip.
C3_Witness ==
  /\ pc = "render"
  /\ module.rejects = {}
  /\ idx = 2
  /\ Logged("write_error", 0)
  /\ Logged("skip_silent", 1)

\* C4: every sink that was opened is closed exactly once when its iteration
\* is over, and never more than once.
C4_SinkClosedOnce ==
  \A v \in opened :
    /\ closes[v] <= 1
    /\ (v < idx \/ pc \in {"returned", "exit"}) => closes[v] = 1

\* C5: a stem with a short write is reported as a write error and never as
\* extracted.
C5_WriteErrorNotExtracted ==
  \A v \in Voices : Logged("write_error", v) => ~Logged("extracted", v)

\* C6: after a write failure on voice v the partial file is gone and every
\* later voice is still probed before the process ends.
C6_WriteFailureLocal ==
  \A v \in Voices :
    (Logged("write_error", v) /\ pc = "exit")
      => /\ \A f \in files : FileNumber(f) # v + 1
         /\ \A w \in Voices : w > v => <<w, "probe">> \in pulls

\* C7: when the sink of voice v cannot be opened there is no render pull and
\* no close for v, v is muted again (it was muted before its iteration iff
\* the engine accepts mute commands for it), and the loop goes on to v + 1:
\* every later voice is probed when the loop completes.
C7_OpenFailureSkips ==
  \A v \in Voices :
    Logged("open_error", v)
      => /\ <<v, "render">> \notin pulls
         /\ v \notin opened
         /\ closes[v] = 0
         /\ idx > v
         /\ (v \notin module.rejects => muted[v])
         /\ (LoopCompleted => \A w \in Voices : w > v => <<w, "probe">> \in pulls)

\* The loop is at the head of the iteration after a failed open.
C7_Witness ==
  /\ pc = "loop"
  /\ idx = 1
  /\ num_instruments > 1
  /\ Logged("open_error", 0)
  /\ muted[0]

\* C8: after a run without sink errors the output holds exactly one file per
\* voice found audible, numbered by the voice's 1-based index.
C8_FilesAreAudibleVoices ==
  (LoopCompleted /\ \A v \in Voices :
                      ~Logged("open_error", v) /\ ~Logged("write_error", v))
    => /\ {FileNumber(f) : f \in files} = {v + 1 : v \in FoundAudible}
       /\ Cardinality(files) = Cardinality(FoundAudible)

\* Three voices, the second silent: files 001 and 003 only.
C8_Witness ==
  /\ LoopCompleted
  /\ num_instruments = 3
  /\ FoundAudible = {0, 2}
  /\ {FileNumber(f) : f \in files} = {1, 3}

\* The command lines of Init are -i/-o pairs and option groups: options stand
\* at the odd positions, up to the first --help (nothing after it is read).
HelpPositions == {i \in DOMAIN argv : i % 2 = 1 /\ argv[i] = "--help"}

OptionPositions ==
  {i \in DOMAIN argv :
     i % 2 = 1 /\ i < Len(argv) /\ \A h \in HelpPositions : i < h}

Given(flag) == \E i \in OptionPositions : argv[i] = flag

HelpGiven == HelpPositions # {}

MissingRequired == ~Given("-i") \/ ~Given("-o")

\* A decimal numeral: digits and nothing else.
IsNumeral(val) ==
  Chars(val) # <<>> /\ \A i \in DOMAIN Chars(val) : IsDigit(Chars(val)[i])

InRange(val, lo, hi) ==
  IsNumeral(val) /\ IsNumber(val) /\ stoi(val) >= lo /\ stoi(val) <= hi

\* The documented values of the numeric options.
DocumentedNumber(flag, val) ==
  CASE flag = "--sample-rate" -> InRange(val, 8000, 192000)
    [] flag = "--channels" -> val \in {"1", "2", "4"}
    [] flag = "--bit-depth" -> val \in {"16", "24"}
    [] flag = "--opus-bitrate" -> InRange(val, 16, 512)
    [] flag = "--vorbis-quality" -> InRange(val, 0, 10)
    [] flag = "--stereo-separation" -> InRange(val, 0, 200)
    [] OTHER -> TRUE

\* The documented values of --resample and --format.
DocumentedWord(flag, val) ==
  CASE flag = "--resample" -> val \in {"nearest", "linear", "cubic", "sinc"}
    [] flag = "--format" -> val \in {"wav", "flac", "vorbis", "opus"}
    [] OTHER -> TRUE

BadNumericValue ==
  \E i \in OptionPositions : ~DocumentedNumber(argv[i], argv[i + 1])

\* The number the program reads from a value is in lo .. hi: the value
\* begins, after white space and a sign, with digits, whatever follows them.
ReadsInRange(val, lo, hi) ==
  IsNumber(val) /\ stoi(val) >= lo /\ stoi(val) <= hi

\* The values of the numeric options the program accepts.
AcceptedNumber(flag, val) ==
  CASE flag = "--sample-rate" -> ReadsInRange(val, 8000, 192000)
    [] flag = "--channels" ->
         \E n \in {1, 2, 4} : ReadsInRange(val, n, n)
    [] flag = "--bit-depth" -> \E n \in {16, 24} : ReadsInRange(val, n, n)
    [] flag = "--opus-bitrate" -> ReadsInRange(val, 16, 512)
    [] flag = "--vorbis-quality" -> ReadsInRange(val, 0, 10)
    [] flag = "--stereo-separation" -> ReadsInRange(val, 0, 200)
    [] OTHER -> TRUE

RejectedNumericValue ==
  \E i \in OptionPositions : ~AcceptedNumber(argv[i], argv[i + 1])

BadWordValue ==
  \E i \in OptionPositions : ~DocumentedWord(argv[i], argv[i + 1])

\* An exception left extractStems: the instrument names could not be read,
\* the output directory could not be created, or the file of a failed
\* write could not be removed.
ExtractionThrew ==
  \/ NamesThrow(module)
  \/ module.interactive /\ dirs = {}
  \/ exception = "remove"

\* C9 as stated, on the runs without --help in which no exception leaves
\* the extraction and main returns: exit code 1 exactly when -i or -o is
\* missing, the input cannot be opened or loaded, or any option has a value
\* outside its documented set or range; exit code 0 otherwise.
C9_ExitCodeByValidity ==
  (pc = "exit" /\ exitCode \in {"0", "1"} /\ ~HelpGiven /\ ~ExtractionThrew)
    => IF MissingRequired \/ ~inputOk \/ BadNumericValue \/ BadWordValue
         THEN exitCode = "1"
         ELSE exitCode = "0"

\* C9 as the code has it: when main returns, it returns 1 exactly when the
\* value of a numeric option does not begin with a number (after white
\* space and a sign) or begins with one outside the option's set or range,
\* or, --help not being given, when -i or -o is missing, the input cannot
\* be opened or loaded, or an exception left the extraction; an unknown
\* --resample or --format value is no error, and neither is what follows
\* the digits of a number.
C9_ExitCode ==
  (pc = "exit" /\ exitCode \in {"0", "1"})
    => (exitCode = "1"
          <=> \/ RejectedNumericValue
              \/ /\ ~HelpGiven
                 /\ MissingRequired \/ ~inputOk \/ ExtractionThrew)

\* A run with an unknown --format and an unknown --resample value that
\* wrote its stem and returned 0.
C9_Witness ==
  /\ pc = "exit"
  /\ exitCode = "0"
  /\ Given("--format") /\ Given("--resample")
  /\ BadWordValue
  /\ ~HelpGiven
  /\ files # {}

\* C10: a run without a fatal error that wrote no stem exits with code 0.
C10_ZeroStemsExitZero ==
  (/\ pc = "exit"
   /\ files = {}
   /\ ~HelpGiven /\ ~MissingRequired /\ ~RejectedNumericValue
   /\ inputOk
   /\ ~ExtractionThrew
   /\ exitCode # "crash")
    => exitCode = "0"

\* Three voices, one silent, one whose sink did not open, one whose write
\* failed: no stem, exit code 0.
C10_Witness ==
  /\ pc = "exit"
  /\ exitCode = "0"
  /\ files = {}
  /\ \E u, v, w \in Voices :
       /\ Logged("skip_silent", u)
       /\ Logged("open_error", v)
       /\ Logged("write_error", w)

\* C11: when the input module cannot be opened or loaded the run aborts
\* before any output: extraction is never entered, no mute command is sent,
\* no directory is created, no sink is opened, nothing is read or written.
C11_LoadFailureBeforeOutput ==
  ~inputOk =>
    /\ pc \in {"main", "construct", "catch", "exit"}
    /\ commands = {}
    /\ dirs = {}
    /\ opened = {}
    /\ sf_infos = {}
    /\ files = {}
    /\ pulls = {}

\* A run whose constructor threw, after main has returned 1.
C11_Witness ==
  /\ ~inputOk
  /\ exception = "open_input"
  /\ pc = "exit"
  /\ exitCode = "1"
  /\ commands = {}
  /\ dirs = {}

\* parseArguments returned its options: no exception, no --help.
ParsedOk == pc # "main" /\ exception # "parse" /\ ~HelpGiven

\* The output format the command line selects: the value of its last
\* --format option.
FormatSelected(f) ==
  \E i \in OptionPositions :
    /\ argv[i] = "--format"
    /\ argv[i + 1] = f
    /\ \A j \in OptionPositions : j > i => argv[j] # "--format"

\* C12: with --format opus selected and no --sample-rate option on the
\* command line, the options parseArguments returns have sample rate 48000,
\* wherever --format stands among the arguments.
C12_OpusDefaultRate ==
  (ParsedOk /\ FormatSelected("opus") /\ ~Given("--sample-rate"))
    => options.sample_rate = 48000

\* A finished run with --format opus followed by another option and no
\* --sample-rate: the sinks were opened at 48000 Hz.
C12_Witness ==
  /\ pc = "exit"
  /\ exitCode = "0"
  /\ FormatSelected("opus")
  /\ ~Given("--sample-rate")
  /\ \E i, j \in OptionPositions : argv[i] = "--format" /\ j > i
  /\ options.sample_rate = 48000
  /\ \E s \in sf_infos : s[2].samplerate = 48000

\* The constructor has stored its options: the arguments were accepted and
\* the input module was loaded.
ExtractorBuilt ==
  /\ pc \notin {"main", "construct"}
  /\ ParsedOk
  /\ ~MissingRequired
  /\ inputOk

\* C13: with stereo separation 0 the options the extractor uses have one
\* channel, whatever --channels asked for; the probe and the render loop
\* read through the mono entry point and every sink is opened with one
\* channel.
C13_MonoAtZeroSeparation ==
  (ExtractorBuilt /\ options.stereo_separation = 0)
    => /\ options.channels = 1
       /\ \A r \in reads : r[2] = "read"
       /\ \A s \in sf_infos : s[2].channels = 1

\* A finished run of --channels 4 with --stereo-separation 0 that probed
\* and rendered a stem.
C13_Witness ==
  /\ pc = "exit"
  /\ exitCode = "0"
  /\ options.stereo_separation = 0
  /\ \E i \in OptionPositions : argv[i] = "--channels" /\ argv[i + 1] = "4"
  /\ reads = {<<"probe", "read">>, <<"render", "read">>}
  /\ \E s \in sf_infos : s[2].channels = 1

\* extractStems has settled the voice count, the kind and the names.
Enumerated ==
  pc \in {"mute_all", "mkdir", "loop", "probe", "probe_end", "open",
          "render", "close", "returned"}

\* The four resolution tiers in their order: whether tier t offers voices
\* for module m, and how many.
TierOffers(m, t) ==
  CASE t = 1 -> m.num_instruments > 0
    [] t = 2 -> m.num_samples > 0
    [] t = 3 -> m.is_mod
    [] t = 4 -> TRUE

TierCount(m, t) ==
  CASE t = 1 -> m.num_instruments
    [] t = 2 -> m.num_samples
    [] t = 3 -> 31
    [] t = 4 -> m.num_channels

\* The one tier that applies: the first in the order that offers voices.
TierApplied(m) ==
  CHOOSE t \in 1 .. 4 :
    TierOffers(m, t) /\ \A u \in 1 .. (t - 1) : ~TierOffers(m, u)

\* C14: the enumeration takes its voice count from the first tier, in the
\* order instrument count, sample count, MOD heuristic (31), channel count,
\* that offers voices; a module with N > 0 instruments gives exactly N
\* voices of kind instrument.
C14_TierOrder ==
  Enumerated =>
    /\ num_instruments = TierCount(module, TierApplied(module))
    /\ module.num_instruments > 0 =>
         (num_instruments = module.num_instruments /\ ~using_samples)

\* A module with two instruments and one sample, after both instruments
\* were processed as voices.
C14_Witness ==
  /\ pc = "returned"
  /\ module.num_instruments = 2
  /\ module.num_samples = 1
  /\ num_instruments = 2
  /\ ~using_samples
  /\ {p[1] : p \in pulls} = {0, 1}

\* C15: when the enumeration falls through to the channel count (no
\* instruments, no samples, type not MOD) the voices are of kind sample with
\* empty names, and a voice is named sample_<idx + 1>.
C15_ChannelTierIsSample ==
  (Enumerated /\ TierApplied(module) = 4 /\ num_instruments > 0) =>
    /\ using_samples
    /\ \A i \in DOMAIN names : names[i] = <<>>
    /\ pc = "probe" =>
         sanitized = <<"s", "a", "m", "p", "l", "e", "_">> \o to_string(idx + 1)

\* C16: a name list that cannot be retrieved is tolerated, the instrument
\* names (here: of a module with instruments) as well as the sample names:
\* the exception never reaches main, the names are one empty string per
\* voice, and a completed loop has probed every voice.
C16_NameFailureTolerated ==
  (module.names_throw /\ (module.num_instruments > 0 \/ UsingSamples(module)))
    => /\ exception # "names"
       /\ Enumerated => names = [i \in 1 .. num_instruments |-> <<>>]
       /\ LoopCompleted => \A v \in Voices : <<v, "probe">> \in pulls

\* The initial mute loop is over.
AfterMuteAll == Enumerated /\ pc # "mute_all" /\ module.interactive

\* C17: whatever set of voices the engine rejects mute commands for, the
\* run goes on: the initial mute command is sent for every voice, at every
\* pull every voice that accepts commands is muted unless it is the current
\* one, and a completed loop has unmuted and probed every voice and rendered
\* every voice the probe found audible whose sink could be opened.
C17_RejectionsTolerated ==
  /\ AfterMuteAll => \A v \in Voices : <<v, TRUE>> \in commands
  /\ pc \in {"probe", "render"} =>
       \A v \in Voices \ module.rejects : muted[v] = (v # idx)
  /\ LoopCompleted =>
       \A v \in Voices :
         /\ <<v, FALSE>> \in commands
         /\ <<v, "probe">> \in pulls
         /\ v \in FoundAudible =>
              (<<v, "render">> \in pulls \/ Logged("open_error", v))

\* A completed loop over three voices of which the engine rejects the first
\* and the last, with a stem file written.
C17_Witness ==
  /\ LoopCompleted
  /\ module.rejects = {0, 2}
  /\ Cardinality(Voices) = 3
  /\ \A v \in Voices : <<v, "probe">> \in pulls
  /\ files # {}

\* The file name of a path: what follows the module directory and its '/'.
FileNameOf(path) ==
  SubSeq(path, Len(ModuleOutputDir(output_dir, input_path)) + 2, Len(path))

\* The last three decimal digits of n, with leading zeros.
LastThreeDigits(n) ==
  <<Digit[((n \div 100) % 10) + 1], Digit[((n \div 10) % 10) + 1],
    Digit[(n % 10) + 1]>>

\* An iteration has set the output file name of voice idx.
FileNamed == pc \in {"probe", "probe_end", "open", "render", "close"}

\* C18: the file name of voice idx is NNN-sanitize(displayName).ext, NNN
\* being idx + 1 padded with zeros to three digits, or its last three
\* decimal digits when idx + 1 > 999 (1000 gives 000, 1001 gives 001), and
\* ext the output format as configured.
C18_FileNameShape ==
  FileNamed =>
    FileNameOf(output_filename) =
      LastThreeDigits(idx + 1) \o <<"-">>
        \o sanitize_filename(VoiceName(names, using_samples, idx))
        \o <<".">> \o Chars(options.output_format)

\* Voice 1001 of the large module: its file number is 001.
C18_Witness ==
  /\ pc = "probe"
  /\ idx + 1 = 1001
  /\ SubSeq(FileNameOf(output_filename), 1, 4) = <<"0", "0", "1", "-">>

\* The name list has no name for voice idx: an empty entry, or none because
\* the list is shorter than the voice count.
Unnamed == idx >= Len(names) \/ names[idx + 1] = <<>>

\* C19 as stated: the file of a voice without a name is NNN.ext, without
\* the -name segment.
C19_UnnamedIsNumberOnly ==
  (FileNamed /\ Unnamed) =>
    FileNameOf(output_filename) =
      LastThreeDigits(idx + 1) \o <<".">> \o Chars(options.output_format)

\* C19 as the code has it: a voice without a name is named sample_<idx + 1>
\* or instrument_<idx + 1>, by the kind of the voices, and its file is
\* NNN-sample_<idx + 1>.ext or NNN-instrument_<idx + 1>.ext.
C19_UnnamedIsPositional ==
  (FileNamed /\ Unnamed) =>
    FileNameOf(output_filename) =
      LastThreeDigits(idx + 1) \o <<"-">>
        \o (IF using_samples
              THEN <<"s", "a", "m", "p", "l", "e", "_">>
              ELSE <<"i", "n", "s", "t", "r", "u", "m", "e", "n", "t", "_">>)
        \o to_string(idx + 1) \o <<".">> \o Chars(options.output_format)

\* The probes of a voice whose list entry is empty and of a voice past the
\* end of the list, in a module of samples.
C19_Witness ==
  /\ pc = "probe"
  /\ using_samples
  /\ Len(names) = 3
  /\ idx \in {1, 3}
  /\ Unnamed
  /\ SubSeq(FileNameOf(output_filename), 1, 11)
       = <<"0", "0", IF idx = 1 THEN "2" ELSE "4", "-", "s", "a", "m", "p",
           "l", "e", "_">>

\* sanitize_filename has been called, and what it was last called with: the
\* name of the voice being probed, of the voice before the loop head, or
\* the module name.
SanitizeCalled ==
  pc \in {"loop", "catch", "probe"} /\ exception \notin {"names", "remove"}

SanitizeArgument ==
  IF pc = "probe" THEN VoiceName(names, using_samples, idx)
  ELSE IF pc = "loop" /\ idx > 0 THEN VoiceName(names, using_samples, idx - 1)
  ELSE ModuleName(Chars(input_path))

\* C20: sanitize_filename gives "unknown" for the empty string; otherwise it
\* keeps the length and every character except < > : " / \ | ? * and space,
\* which become '_'; and "." and ".." give "_".
C20_Sanitize ==
  SanitizeCalled =>
    LET arg == SanitizeArgument
    IN IF arg = <<>>
         THEN sanitized = <<"u", "n", "k", "n", "o", "w", "n">>
       ELSE IF arg \in {<<".">>, <<".", ".">>}
         THEN sanitized = <<"_">>
       ELSE /\ Len(sanitized) = Len(arg)
            /\ \A i \in 1 .. Len(arg) :
                 sanitized[i] =
                   IF arg[i] \in {"<", ">", ":", "\"", "/", "\\", "|", "?",
                                  "*", " "}
                     THEN "_"
                     ELSE arg[i]

\* The voice name "Lead Guitar/Solo" has become "Lead_Guitar_Solo".
C20_Witness ==
  /\ pc = "probe"
  /\ SanitizeArgument = LeadGuitarSolo
  /\ sanitized = <<"L", "e", "a", "d", "_", "G", "u", "i", "t", "a", "r", "_",
                   "S", "o", "l", "o">>

\* A path component that stays where it is put: not empty, without '/' and
\* '\', and neither "." nor "..".
SafeComponent(c) ==
  /\ c # <<>>
  /\ \A i \in DOMAIN c : c[i] \notin {"/", "\\"}
  /\ c \notin {<<".">>, <<".", ".">>}

\* C21: every sanitized module name and voice name is a safe component, and
\* every output file path is the output directory, one safe component for
\* the module directory, and one safe component for the file.
C21_TraversalSafe ==
  /\ SanitizeCalled => SafeComponent(sanitized)
  /\ FileNamed =>
       LET out == Chars(output_dir)
           rest == SubSeq(output_filename, Len(out) + 2, Len(output_filename))
       IN /\ SubSeq(output_filename, 1, Len(out) + 1) = out \o <<"/">>
          /\ \E k \in DOMAIN rest :
               /\ rest[k] = "/"
               /\ SafeComponent(SubSeq(rest, 1, k - 1))
               /\ SafeComponent(SubSeq(rest, k + 1, Len(rest)))

\* C22: a sink is opened and the render loop reads only in an iteration
\* whose probe found audio; the sink is opened and the first render read is
\* made at position 0; a voice skipped as silent never has a sink.
C22_ProbeBeforeRender ==
  /\ pc \in {"open", "render", "close"} =>
       (has_any_audio /\ <<idx, "probe">> \in pulls)
  /\ \A v \in opened : <<v, "probe">> \in pulls /\ ~Logged("skip_silent", v)
  /\ \A v \in Voices : <<v, "render">> \in pulls => v \in opened
  /\ pc = "open" => position = 0
  /\ (pc = "render" /\ <<idx, "render">> \notin pulls) => position = 0

\* The second voice about to be rendered from position 0, after a probe
\* that read two blocks; the first voice was skipped as silent.
C22_Witness ==
  /\ pc = "render"
  /\ idx = 1
  /\ <<idx, "render">> \notin pulls
  /\ position = 0
  /\ module.length = 2
  /\ module.onset[1] = 1
  /\ module.duration = 2
  /\ Logged("skip_silent", 0)
  /\ 0 \notin opened

\* C23: every probe read is made with interpolation filter length 1; at
\* every render read, at the loop head and when extractStems returns the
\* engine has the configured filter length again, however the probe ended;
\* the stored options stay what the constructor stored.
C23_FilterRestored ==
  /\ pc = "probe" => filter = 1
  /\ pc \in {"loop", "open", "render", "close", "returned"} =>
       filter = options.interpolation_filter
  /\ ExtractorBuilt => options = AdjustedOptions(parseArguments(argv).opts)

\* extractStems has returned with the configured filter after a probe that
\* ended on zero frames (voice 0, silent) and one that found audio (voice 1).
C23_Witness ==
  /\ pc = "returned"
  /\ filter = options.interpolation_filter
  /\ filter # 1
  /\ module.duration > module.length
  /\ Logged("skip_silent", 0)
  /\ Logged("extracted", 1)

\* The blocks the probe has read when it ends: those before the position.
ProbedBlocks == 0 .. (position - 1)

\* C24 as stated: a probe whose blocks hold only samples at or below the
\* epsilon (zeros, denormal magnitudes) judges the voice silent.
C24_EpsilonSilence ==
  (pc = "probe_end"
     /\ \A p \in ProbedBlocks : BlockSamples(muted, p) \subseteq {"zero", "denormal"})
    => ~has_any_audio

\* C24 as the code has it: the probe judges the voice silent exactly when
\* every sample of every block it read is exactly zero; a sample of denormal
\* magnitude makes the voice audible.
C24_ExactZeroSilence ==
  pc = "probe_end" =>
    (~has_any_audio <=>
       \A p \in ProbedBlocks : BlockSamples(muted, p) \subseteq {"zero"})

\* A stem file written for a voice that produces only samples of denormal
\* magnitude.
C24_Witness ==
  /\ LoopCompleted
  /\ Cardinality(Voices) = 1
  /\ module.level[0] = "denormal"
  /\ Logged("extracted", 0)
  /\ ~Logged("write_error", 0)
  /\ files # {}

\* The block at position p, as the engine mixes it under the current mute
\* flags, holds a sample that is not silent for the probe (not zero).
SoundsAt(p) == \E v \in Voices : ~muted[v] /\ module.onset[v] <= p

\* C25: when the probe ends, its verdict is audible exactly when one of the
\* blocks it read holds a non-silent sample; it read on after a block only
\* when that block held none, the engine had more frames and the position
\* was below 99% of the duration; and it ended because the last block held
\* one, the position reached 99% of the duration, or the engine returned
\* zero frames. Audio after that point is not seen.
C25_ProbeVerdict ==
  pc = "probe_end" =>
    /\ has_any_audio <=> \E p \in ProbedBlocks : SoundsAt(p)
    /\ \A p \in ProbedBlocks :
         p + 1 < position =>
           /\ ~SoundsAt(p)
           /\ p + 1 < module.length
           /\ 100 * (p + 1) < 99 * module.duration
    /\ \/ position > 0 /\ SoundsAt(position - 1)
       \/ 100 * position >= 99 * module.duration
       \/ position >= module.length

\* A voice that first sounds in the second block of a module whose reported
\* duration is one block: the probe stopped after the first block and the
\* voice was skipped as silent.
C25_Witness ==
  /\ LoopCompleted
  /\ Cardinality(Voices) = 1
  /\ module.length = 2
  /\ module.duration = 1
  /\ module.onset[0] = 1
  /\ pulls = {<<0, "probe">>}
  /\ Logged("skip_silent", 0)
  /\ files = {}

\* C26: with an engine that returns zero frames after finitely many reads
\* (every module here does), a run that has entered the loop over the voices
\* ends every probe and render loop and extractStems returns, having visited
\* every voice.
C26_Terminates ==
  (pc = "loop" /\ idx = 0)
    ~> (pc = "returned" /\ \A v \in Voices : <<v, "probe">> \in pulls)

\* Voices whose sink was opened and not closed yet.
OpenSinks == {v \in opened : closes[v] = 0}

\* C27: at most one sink is open at any moment; none is open at the start
\* of an iteration or when extractStems has returned; the open sink is the
\* one of the current voice, and every render pull (whose frames go into the
\* open sink) is made in the iteration of the voice the sink was opened for,
\* with that voice isolated when the engine accepts every mute command.
C27_OneSinkOpen ==
  /\ Cardinality(OpenSinks) <= 1
  /\ pc \in {"loop", "returned"} => (outfile # "open" /\ OpenSinks = {})
  /\ outfile = "open" => (pc \in {"render", "close"} /\ OpenSinks = {idx})
  /\ pc = "render" => (outfile = "open" /\ OpenSinks = {idx})
  /\ \A v \in Voices : <<v, "render">> \in pulls => v \in opened
  /\ (pc = "render" /\ module.rejects = {})
       => \A v \in Voices : muted[v] = (v # idx)

\* The render pass of the second voice, after the first voice's sink was
\* opened, written and closed.
C27_Witness ==
  /\ pc = "render"
  /\ idx = 1
  /\ opened = {0, 1}
  /\ closes[0] = 1
  /\ closes[1] = 0
  /\ outfile = "open"
  /\ <<0, "render">> \in pulls
  /\ <<1, "render">> \in pulls

\* The output path the loop gives voice j in this run.
PathOf(j) ==
  OutputFilename(ModuleOutputDir(output_dir, input_path),
                 VoiceName(names, using_samples, j), j, options.output_format)

\* The voices whose paths are compared with the path of the current voice.
ComparedVoices == {j \in Voices : j \in NamerIndices}

\* C28: when another voice of the run has the output path of the current
\* voice, the module has more than 1000 voices, the 1-based numbers of the
\* two voices agree in their last three digits, and their sanitized names
\* are equal; so in a module of at most 999 voices no two voices share a
\* path, whatever their display names.
C28_NoCollision ==
  pc = "probe" =>
    \A j \in ComparedVoices \ {idx} :
      PathOf(j) = output_filename =>
        /\ num_instruments >= 1001
        /\ (j + 1) % 1000 = (idx + 1) % 1000
        /\ sanitize_filename(VoiceName(names, using_samples, j))
             = sanitize_filename(VoiceName(names, using_samples, idx))

\* Voice 1001, named "a b", gets the path of voice 1, named "a/b"; and in
\* the module of 999 voices the last voice, with the same two names, does
\* not.
C28_Witness ==
  /\ pc = "probe"
  /\ names[1] = <<"a", "/", "b">>
  /\ names[idx + 1] = <<"a", " ", "b">>
  /\ \/ /\ idx + 1 = 1001
        /\ output_filename = PathOf(0)
     \/ /\ idx + 1 = 999
        /\ num_instruments = 999
        /\ names[2] = names[4]
        /\ PathOf(1) # PathOf(3)
        /\ \A j \in ComparedVoices \ {idx} : PathOf(j) # output_filename

\* The sample rate the command line selects: the value of its last
\* --sample-rate option.
RateSelected(r) ==
  \E i \in OptionPositions :
    /\ argv[i] = "--sample-rate"
    /\ argv[i + 1] = r
    /\ \A j \in OptionPositions : j > i => argv[j] # "--sample-rate"

\* C29: a --sample-rate value in the accepted range is the sample rate of
\* the options parseArguments returns, whatever the output format, opus
\* included.
C29_ExplicitRateKept ==
  \A r \in NumberTokens :
    (ParsedOk /\ RateSelected(r) /\ InRange(r, 8000, 192000))
      => options.sample_rate = stoi(r)

\* The container a file extension names.
ContainerNamed(ext) ==
  CASE ext = "wav" -> "WAV"
    [] ext = "flac" -> "FLAC"
    [] ext \in {"vorbis", "opus"} -> "OGG"
    [] OTHER -> "none"

\* C30: the options the extractor works with are within the ranges of the
\* data model, and every sink is opened with the container its file
\* extension, the output format, names.
C30_ConfigInRange ==
  ExtractorBuilt =>
    /\ options.output_format \in {"wav", "flac", "vorbis", "opus"}
    /\ options.channels \in {1, 2, 4}
    /\ options.bit_depth \in {16, 24}
    /\ options.stereo_separation \in 0 .. 200
    /\ options.opus_bitrate \in 16 .. 512
    /\ options.vorbis_quality \in 0 .. 10
    /\ options.interpolation_filter \in {1, 2, 4, 8}
    /\ \A s \in sf_infos :
         s[2].format[1] = ContainerNamed(options.output_format)

====
